---- MODULE Spec2Model ----
(***************************************************************************)
(* Model of the OCR-to-ingredients pipeline of ingredients_backend:        *)
(* app.process_ocr -> OCRProcessor.process_ocr_text ->                     *)
(* OCRProcessor._process_single_dish, with the Spoonacular and OpenAI      *)
(* client wrappers.  The remote services are the environment: every        *)
(* remote call draws its response from a small set of JSON values.         *)
(* A second specification, SpecText, models the text normaliser of the     *)
(* older variant (ingredients_api.py): TextProcessor.clean_ocr_text and    *)
(* TextProcessor.extract_dish_name as IngredientProcessor.process_ocr_text *)
(* applies them.                                                           *)
(*                                                                         *)
(* Encoding of JSON / Python values:                                       *)
(*   string        sequence of code points, "ab" is <<97, 98>>             *)
(*   list          sequence of values                                      *)
(*   non-string    NonStr (a JSON number where a string is expected)       *)
(*   null / None   Null where a list is expected, NoneStr where a string   *)
(*                 is expected                                             *)
(*   dict          record; an absent key is an absent field (see Get)      *)
(*   float         rational [n |-> numerator, d |-> denominator], d > 0    *)
(***************************************************************************)
EXTENDS Integers, Sequences, FiniteSets, TLC

\* ------------------------------------------------------------------ bounds
MaxDishes == 2
MaxRecipes == 4
MaxTextLen == 3

\* ------------------------------------------------------- program constants
ConfidenceDivisor == 3
MaxSuggested == 8
FallbackLen == 50

\* ------------------------------------------------------------- JSON values
NonStr == <<-1>>
NoneStr == <<-2>>
Null == <<<<-2>>>>

Get(d, k, default) == IF k \in DOMAIN d THEN d[k] ELSE default

\* Python truthiness of a value that is a string or None.
TruthyStr(v) == v # NoneStr /\ v # <<>>

\* Python truthiness of a value that is a list or None.
TruthyList(v) == v # Null /\ v # <<>>

HasNonStr(l) == \E i \in DOMAIN l : l[i] = NonStr

\* ----------------------------------------------------------------- strings
IsSpace(c) == c \in {9, 10, 11, 12, 13, 32}

LowerChar(c) == IF c \in 65..90 THEN c + 32 ELSE c

Lower(s) == [i \in DOMAIN s |-> LowerChar(s[i])]

RECURSIVE LStrip(_)
LStrip(s) == IF s # <<>> /\ IsSpace(Head(s)) THEN LStrip(Tail(s)) ELSE s

RECURSIVE RStrip(_)
RStrip(s) ==
    IF s # <<>> /\ IsSpace(s[Len(s)]) THEN RStrip(SubSeq(s, 1, Len(s) - 1)) ELSE s

Strip(s) == RStrip(LStrip(s))

\* Python's str ordering: lexicographic on code points.
RECURSIVE StrLess(_, _)
StrLess(s, t) ==
    IF s = <<>> THEN t # <<>>
    ELSE IF t = <<>> THEN FALSE
    ELSE IF Head(s) # Head(t) THEN Head(s) < Head(t)
    ELSE StrLess(Tail(s), Tail(t))

\* sorted(list(S)) for a set S of strings.
RECURSIVE SortedList(_)
SortedList(S) ==
    IF S = {} THEN <<>>
    ELSE LET m == CHOOSE x \in S : \A y \in S \ {x} : StrLess(x, y)
         IN  <<m>> \o SortedList(S \ {m})

Range(l) == {l[i] : i \in DOMAIN l}

\* --------------------------------------------------------------- rationals
Rat(n, d) == [n |-> n, d |-> d]
RatLeq(x, y) == x.n * y.d <= y.n * x.d
RatEq(x, y) == x.n * y.d = y.n * x.d
RatMin(x, y) == IF RatLeq(x, y) THEN x ELSE y
RatMax(x, y) == IF RatLeq(y, x) THEN x ELSE y
Zero == Rat(0, 1)
One == Rat(1, 1)

\* ------------------------------------------------- strings used as inputs
s_a == <<97>>
s_b == <<98>>
s_c == <<99>>
s_A == <<65>>
s_a_sp == <<97, 32>>
s_B_sp == <<66, 32>>
s_b_sp == <<98, 32>>
s_sp_C == <<32, 67>>
s_X == <<88>>
s_Y == <<89>>
s_Z == <<90>>
s_sp == <<32>>

\* str(e) of the exceptions the pipeline can raise.
ErrNotIterable == "'NoneType' object is not iterable"
ErrNoLower == "'int' object has no attribute 'lower'"
ErrNoStrip == "'int' object has no attribute 'strip'"
ErrConcat == "can only concatenate list (not \"NoneType\") to list"
ErrNoLen == "object of type 'NoneType' has no len()"
ErrJoin == "sequence item 0: expected str instance, int found"
ErrRemote == "remote call failed"

\* ------------------------------------------- services/spoonacular.py
\* A remote answer is [status |-> "error"] (transport failure, non-2xx
\* status, body that is not JSON) or [status |-> "ok", data |-> <dict>].

SearchRecipesByName(resp) ==
    IF resp.status # "ok" THEN <<>> ELSE Get(resp.data, "results", <<>>)

\* ingredient['name'].lower() / ingredient['originalName'].lower()
IngredientKey(ingredient) ==
    IF "name" \in DOMAIN ingredient THEN ingredient.name
    ELSE IF "originalName" \in DOMAIN ingredient THEN ingredient.originalName
    ELSE NoneStr

ExtendedIngredients(recipe) == Get(recipe, "extendedIngredients", <<>>)

ExtractRaises(recipes) ==
    \E i \in DOMAIN recipes :
        \E j \in DOMAIN ExtendedIngredients(recipes[i]) :
            IngredientKey(ExtendedIngredients(recipes[i])[j]) = NonStr

NamedIngredients(recipe) ==
    { x \in Range(ExtendedIngredients(recipe)) : IngredientKey(x) # NoneStr }

ExtractIngredientsFromRecipes(recipes) ==
    SortedList(UNION { { Lower(IngredientKey(x)) : x \in NamedIngredients(recipes[i]) } :
                        i \in DOMAIN recipes })

ConfidenceUncapped(recipe_count) == Rat(recipe_count, ConfidenceDivisor)

Confidence(recipe_count) == RatMin(One, Rat(recipe_count, ConfidenceDivisor))

FindIngredientsForDishKeepingCount(dish_name, resp) ==
    LET recipes == SearchRecipesByName(resp)
    IN  IF recipes = <<>>
        THEN [dish_name |-> dish_name, ingredients |-> <<>>,
              found_recipes |-> FALSE, recipe_count |-> 0]
        ELSE IF ExtractRaises(recipes)
        THEN [dish_name |-> dish_name, ingredients |-> <<>>,
              found_recipes |-> FALSE, recipe_count |-> Len(recipes),
              error |-> ErrNoLower]
        ELSE [dish_name |-> dish_name,
              ingredients |-> ExtractIngredientsFromRecipes(recipes),
              found_recipes |-> TRUE, recipe_count |-> Len(recipes),
              confidence |-> Confidence(Len(recipes))]

FindIngredientsForDish(dish_name, resp) ==
    LET recipes == SearchRecipesByName(resp)
    IN  IF recipes = <<>>
        THEN [dish_name |-> dish_name, ingredients |-> <<>>,
              found_recipes |-> FALSE, recipe_count |-> 0]
        ELSE IF ExtractRaises(recipes)
        THEN [dish_name |-> dish_name, ingredients |-> <<>>,
              found_recipes |-> FALSE, error |-> ErrNoLower]
        ELSE [dish_name |-> dish_name,
              ingredients |-> ExtractIngredientsFromRecipes(recipes),
              found_recipes |-> TRUE, recipe_count |-> Len(recipes),
              confidence |-> Confidence(Len(recipes))]

\* --------------------------------------------- services/openai_service.py
\* A body whose 'dishes' has no len() raises at line 184, inside the try:
\* it is one of the failures.
AnalyzeOcrText(resp) ==
    IF resp.status # "ok"
    THEN [dishes |-> <<>>, overall_confidence |-> Zero,
          text_quality |-> "poor", error |-> ErrRemote]
    ELSE resp.data

SplitDishName(dish_name, resp) ==
    IF resp.status # "ok"
    THEN [original_name |-> dish_name, alternative_name |-> NoneStr,
          error |-> ErrRemote]
    ELSE resp.data

SanityCheckFailClosed(dish_name, ingredients, resp) ==
    IF \/ resp.status # "ok"
       \/ Get(resp.data, "verified_ingredients", ingredients) = Null
       \/ Get(resp.data, "removed_ingredients", <<>>) = Null
    THEN [verified_ingredients |-> <<>>, removed_ingredients |-> <<>>,
          error |-> ErrRemote]
    ELSE resp.data

SanityCheckIngredients(dish_name, ingredients, resp) ==
    IF \/ resp.status # "ok"
       \/ Get(resp.data, "verified_ingredients", ingredients) = Null
       \/ Get(resp.data, "removed_ingredients", <<>>) = Null
    THEN [verified_ingredients |-> ingredients, removed_ingredients |-> <<>>,
          error |-> ErrRemote]
    ELSE resp.data

\* ', '.join(l) if l else 'None' raises on a list with a non-string item.
JoinRaises(l) == TruthyList(l) /\ HasNonStr(l)

ClampUpperOnly(confidence) == RatMin(One, confidence)

\* max(0.0, min(1.0, confidence))
Clamp(confidence) == RatMax(Zero, RatMin(One, confidence))

\* The older wrapper of the suggestion prompt (lines 19-80); the pipeline
\* does not call it.
SuggestMissingIngredients(dish_name, known_ingredients, resp) ==
    IF JoinRaises(known_ingredients)
    THEN [dish_name |-> dish_name, suggested_ingredients |-> <<>>,
          confidence |-> Zero, error |-> ErrJoin]
    ELSE IF \/ resp.status # "ok"
            \/ Get(resp.data, "suggested_ingredients", <<>>) = Null
    THEN [dish_name |-> dish_name, suggested_ingredients |-> <<>>,
          confidence |-> Zero, error |-> ErrRemote]
    ELSE [dish_name |-> dish_name,
          suggested_ingredients |-> Get(resp.data, "suggested_ingredients", <<>>),
          confidence |-> Clamp(Get(resp.data, "confidence", Rat(1, 2)))]

SuggestAdditionalIngredients(dish_name, verified, mentioned, resp) ==
    IF JoinRaises(verified) \/ JoinRaises(mentioned)
    THEN [suggested_ingredients |-> <<>>, confidence |-> Zero,
          error |-> ErrJoin]
    ELSE IF \/ resp.status # "ok"
            \/ Get(resp.data, "suggested_ingredients", <<>>) = Null
    THEN [suggested_ingredients |-> <<>>, confidence |-> Zero,
          error |-> ErrRemote]
    ELSE [suggested_ingredients |-> Get(resp.data, "suggested_ingredients", <<>>),
          confidence |-> Clamp(Get(resp.data, "confidence", Rat(1, 2)))]

\* Whether suggest_additional_ingredients reaches its remote call.
SuggestCallsRemote(verified, mentioned) ==
    ~(JoinRaises(verified) \/ JoinRaises(mentioned))

\* ------------------------------------------------------ remote responses
Failure == [status |-> "error"]
Ok(d) == [status |-> "ok", data |-> d]

Recipe1 ==
    [id |-> 1,
     extendedIngredients |-> << [name |-> s_b], [name |-> s_A],
                                [originalName |-> s_B_sp] >>]
RecipeBad == [id |-> 2, extendedIngredients |-> << [name |-> NonStr] >>]
Recipes(n) == [i \in 1..n |-> Recipe1]

\* Numbers of recipes a search returns: none, one, and more than
\* ConfidenceDivisor.
RecipeCounts == {0, 1, MaxRecipes}

SearchResponses ==
    {Failure} \cup {Ok([results |-> Recipes(n)]) : n \in RecipeCounts}
              \cup {Ok([results |-> <<RecipeBad>>])}

SplitResponses ==
    {Failure, Ok([alternative_name |-> <<>>]), Ok([alternative_name |-> s_Y])}

SanityResponses ==
    {Failure,
     Ok([verified_ingredients |-> <<s_a>>, removed_ingredients |-> <<s_b, s_b_sp>>]),
     Ok([verified_ingredients |-> <<NonStr>>, removed_ingredients |-> <<>>])}

TooMany == [i \in 1..(MaxSuggested + 1) |-> <<99 + i>>]

\* The confidence of an answer is missing, above 1 or below 0.
SuggestResponses ==
    {Failure,
     Ok([suggested_ingredients |-> <<s_c, s_a, s_sp_C>>]),
     Ok([suggested_ingredients |-> TooMany, confidence |-> Rat(3, 2)]),
     Ok([suggested_ingredients |-> <<NonStr>>, confidence |-> Rat(-1, 2)])}

CandOk == [name |-> <<32, 88>>, mentioned_ingredients |-> <<s_b, s_A, s_a_sp>>]
CandNull == [name |-> s_Z, mentioned_ingredients |-> Null]
CandBlank == [name |-> s_sp, mentioned_ingredients |-> <<s_b>>]
CandBadName == [name |-> NonStr, mentioned_ingredients |-> <<>>]
Candidates == {CandOk, CandNull, CandBlank, CandBadName}

SeqsUpTo(S, n) == UNION {[1..k -> S] : k \in 0..n}

AnalysisResponses ==
    {Failure, Ok([text_quality |-> "poor"])}
        \cup {Ok([dishes |-> d]) : d \in SeqsUpTo(Candidates, MaxDishes)}

\* The parsed body of a request whose JSON document is null.
JsonNull == [json_null |-> TRUE]

Requests ==
    {[is_json |-> FALSE],
     [is_json |-> TRUE, data |-> JsonNull],
     [is_json |-> TRUE, data |-> [other |-> s_X]],
     [is_json |-> TRUE, data |-> [ocr_text |-> s_sp]],
     [is_json |-> TRUE, data |-> [ocr_text |-> NonStr]],
     [is_json |-> TRUE, data |-> [ocr_text |-> <<32, 88, 32, 98>>]]}

\* ------------------------------------------- services/ocr_processor.py
CombineIngredientsKnownOnly(known_ingredients, suggested_ingredients) ==
    SortedList({Strip(Lower(known_ingredients[i])) : i \in DOMAIN known_ingredients})

\* _combine_ingredients, lines 157-176.
CombineIngredients(known_ingredients, suggested_ingredients) ==
    LET known == {Strip(Lower(known_ingredients[i])) : i \in DOMAIN known_ingredients}
        added == {Strip(Lower(suggested_ingredients[i])) :
                      i \in DOMAIN suggested_ingredients} \ {<<>>}
    IN  SortedList(known \cup added)

LowerAll(l) == [i \in DOMAIN l |-> Lower(l[i])]

\* str(e) of the exception raised by step 5 (lines 105-108), "" when none.
MergeError(verified, mentioned, suggested) ==
    IF mentioned = Null THEN ErrNotIterable
    ELSE IF HasNonStr(mentioned) THEN ErrNoLower
    ELSE IF verified = Null THEN ErrConcat
    ELSE IF HasNonStr(verified) THEN ErrNoLower
    ELSE IF suggested = Null THEN ErrNotIterable
    ELSE IF HasNonStr(suggested) THEN ErrNoLower
    ELSE ""

DishResultWithoutMenu(dish_name, mentioned, sr, verified, ar) ==
    LET suggested == Get(ar, "suggested_ingredients", <<>>)
        all_ingredients ==
            CombineIngredients(verified, suggested)
    IN  [dish_name |-> dish_name,
         ingredients |-> [from_menu |-> mentioned,
                          from_spoonacular |-> Get(sr, "ingredients", <<>>),
                          verified_spoonacular |-> verified,
                          suggested_by_ai |-> suggested,
                          combined_list |-> all_ingredients],
         metadata |-> [spoonacular_confidence |-> Get(sr, "confidence", Zero),
                       ai_confidence |-> Get(ar, "confidence", Zero),
                       recipes_found |-> Get(sr, "recipe_count", 0),
                       total_ingredients |-> Len(all_ingredients),
                       sanity_check_performed |-> Get(sr, "found_recipes", FALSE)],
         sources |-> [spoonacular_success |-> Get(sr, "found_recipes", FALSE),
                      openai_success |-> "error" \notin DOMAIN ar]]

DishResult(dish_name, mentioned, sr, verified, ar) ==
    LET suggested == Get(ar, "suggested_ingredients", <<>>)
        all_ingredients ==
            CombineIngredients(verified \o LowerAll(mentioned), suggested)
    IN  [dish_name |-> dish_name,
         ingredients |-> [from_menu |-> mentioned,
                          from_spoonacular |-> Get(sr, "ingredients", <<>>),
                          verified_spoonacular |-> verified,
                          suggested_by_ai |-> suggested,
                          combined_list |-> all_ingredients],
         metadata |-> [spoonacular_confidence |-> Get(sr, "confidence", Zero),
                       ai_confidence |-> Get(ar, "confidence", Zero),
                       recipes_found |-> Get(sr, "recipe_count", 0),
                       total_ingredients |-> Len(all_ingredients),
                       sanity_check_performed |-> Get(sr, "found_recipes", FALSE)],
         sources |-> [spoonacular_success |-> Get(sr, "found_recipes", FALSE),
                      openai_success |-> "error" \notin DOMAIN ar]]

\* The except branch of _process_single_dish (lines 136-155).
DegradedResult(dish_name, mentioned, msg) ==
    [dish_name |-> dish_name,
     ingredients |-> [from_menu |-> mentioned,
                      from_spoonacular |-> <<>>,
                      verified_spoonacular |-> <<>>,
                      suggested_by_ai |-> <<>>,
                      combined_list |-> mentioned],
     metadata |-> [error |-> msg, total_ingredients |-> Len(mentioned)],
     sources |-> [spoonacular_success |-> FALSE, openai_success |-> FALSE]]

\* len(mentioned_ingredients) in the except branch raises on None.
HandlerRaises(mentioned) == mentioned = Null

Count(dishes, flag) ==
    Cardinality({i \in DOMAIN dishes : dishes[i].sources[flag]})

RECURSIVE SumIngredients(_)
SumIngredients(dishes) ==
    IF dishes = <<>> THEN 0
    ELSE Head(dishes).metadata.total_ingredients + SumIngredients(Tail(dishes))

GenerateProcessingSummaryUndivided(dishes) ==
    [total_dishes_processed |-> Len(dishes),
     spoonacular_success_rate |-> Rat(Count(dishes, "spoonacular_success"), 1),
     openai_success_rate |-> Rat(Count(dishes, "openai_success"), 1),
     total_ingredients_found |-> SumIngredients(dishes)]

\* _generate_processing_summary, lines 178-202.
\* average_ingredients_per_dish (a rounded float) is left out.
GenerateProcessingSummary(dishes) ==
    LET total_dishes == Len(dishes)
    IN  [total_dishes_processed |-> total_dishes,
         spoonacular_success_rate |->
             IF total_dishes > 0
             THEN Rat(Count(dishes, "spoonacular_success"), total_dishes) ELSE Zero,
         openai_success_rate |->
             IF total_dishes > 0
             THEN Rat(Count(dishes, "openai_success"), total_dishes) ELSE Zero,
         total_ingredients_found |-> SumIngredients(dishes)]

\* ------------------------------------------------------------------ state
VARIABLES
    request,               \* the HTTP request being served
    pc,                    \* position of the request in the pipeline
    ocr_analysis,          \* process_ocr_text: result of analyze_ocr_text
    idx,                   \* process_ocr_text: position of the dish loop
    processed_dishes,      \* process_ocr_text: DishResults so far
    spoonacular_result,    \* _process_single_dish locals
    split_result,
    sanity_check_result,
    verified_ingredients,
    additional_result,
    suggest_args,          \* arguments of the suggest call of this dish
    calls,                 \* client-wrapper calls made for this request
    response,              \* the HTTP response
    ip_pc,                 \* IngredientProcessor.process_ocr_text: position
    ip_ocr_text,           \* its argument ocr_text
    ip_cleaned_text,       \* its local cleaned_text
    ip_dish_name           \* its local dish_name

\* The state of the text normaliser (ingredients_api.py).
text_vars == <<ip_pc, ip_ocr_text, ip_cleaned_text, ip_dish_name>>

vars == <<request, pc, ocr_analysis, idx, processed_dishes, spoonacular_result,
          split_result, sanity_check_result, verified_ingredients,
          additional_result, suggest_args, calls, response, text_vars>>

None == [none |-> TRUE]

dish_locals == <<spoonacular_result, split_result, sanity_check_result,
                 verified_ingredients, additional_result, suggest_args>>

pipeline == <<ocr_analysis, idx, processed_dishes>>

TextIdle ==
    /\ ip_pc = "idle"
    /\ ip_ocr_text = <<>>
    /\ ip_cleaned_text = <<>>
    /\ ip_dish_name = <<>>

Init ==
    /\ TextIdle
    /\ request \in Requests
    /\ pc = "request"
    /\ ocr_analysis = None
    /\ idx = 1
    /\ processed_dishes = <<>>
    /\ spoonacular_result = None
    /\ split_result = None
    /\ sanity_check_result = None
    /\ verified_ingredients = <<>>
    /\ additional_result = None
    /\ suggest_args = None
    /\ calls = <<>>
    /\ response = None

\* One entry of the call log: a client-wrapper call made for dish number
\* `dish` (0: for the request), its argument, whether it reached the remote
\* service, its outcome (ok: found_recipes of a lookup, a truthy
\* alternative_name of a split, otherwise that the remote service answered
\* with a body that parses) and, for a split, the alternative name returned.
Call(op, dish, arg, remote, ok, ret) ==
    [op |-> op, dish |-> dish, arg |-> arg, remote |-> remote, ok |-> ok,
     ret |-> ret]

FoundRecipes(sr) == Get(sr, "found_recipes", FALSE)

AlternativeName(sp) == Get(sp, "alternative_name", NoneStr)

AfterLookupRetrying(sr) == IF ~FoundRecipes(sr) THEN "lookup" ELSE "sanity"

\* _process_single_dish, lines 82 and 91: the step after the first lookup.
AfterLookup(sr) == IF ~FoundRecipes(sr) THEN "split" ELSE "sanity"

AfterSplitAlwaysRetry(sp) == "retry"

\* _process_single_dish, lines 85 and 91: the step after split_dish_name.
AfterSplit(sp) == IF TruthyStr(AlternativeName(sp)) THEN "retry" ELSE "suggest"

AfterRetryAlwaysSanity(sr) == "sanity"

\* _process_single_dish, line 91: the step after the second lookup.
AfterRetry(sr) == IF FoundRecipes(sr) THEN "sanity" ELSE "suggest"

NoDishesAsSuccess(analysis) ==
    [success |-> TRUE,
     message |-> "No dishes could be identified in the OCR text",
     ocr_analysis |-> analysis,
     dishes |-> <<>>]

\* process_ocr_text, lines 29-34.
NoDishesResult(analysis) ==
    [success |-> FALSE,
     message |-> "No dishes could be identified in the OCR text",
     ocr_analysis |-> analysis,
     dishes |-> <<>>]

ErrorResultWithoutError(msg) ==
    [success |-> FALSE,
     message |-> "An error occurred while processing the OCR text"]

\* process_ocr_text, lines 65-69.
ErrorResult(msg) ==
    [success |-> FALSE, error |-> msg,
     message |-> "An error occurred while processing the OCR text"]

Dishes == Get(ocr_analysis, "dishes", <<>>)
DishData == Dishes[idx]
DishNameUntrimmed == Get(DishData, "name", <<>>)

\* process_ocr_text, line 39.
DishName == Strip(Get(DishData, "name", <<>>))
Mentioned == Get(DishData, "mentioned_ingredients", <<>>)
Found == FoundRecipes(spoonacular_result)

\* ----------------------------------------------------------------- app.py
Respond(status, body) == [status |-> status, body |-> body]

\* process_ocr, lines 49-70 and 79-84: request validation.  `'ocr_text' not
\* in data` raises on a null body and `.strip()` on an ocr_text that is not
\* a string; the except branch answers 500.
ProcessOcr ==
    /\ pc = "request"
    /\ IF ~request.is_json
       THEN /\ response' = Respond(400, [error |-> "Content-Type must be application/json"])
            /\ pc' = "done"
       ELSE IF request.data = JsonNull
       THEN /\ response' = Respond(500, [error |->
                    "Internal server error occurred while processing OCR text"])
            /\ pc' = "done"
       ELSE IF "ocr_text" \notin DOMAIN request.data
       THEN /\ response' = Respond(400, [error |-> "Missing required field: ocr_text"])
            /\ pc' = "done"
       ELSE IF request.data.ocr_text = NonStr
       THEN /\ response' = Respond(500, [error |->
                    "Internal server error occurred while processing OCR text"])
            /\ pc' = "done"
       ELSE IF Strip(request.data.ocr_text) = <<>>
       THEN /\ response' = Respond(400, [error |-> "ocr_text cannot be empty"])
            /\ pc' = "done"
       ELSE /\ pc' = "analyze"
            /\ UNCHANGED response
    /\ UNCHANGED <<text_vars, request, pipeline, dish_locals, calls>>

\* process_ocr_text, lines 22-34, and process_ocr, lines 75-77.
Analyze ==
    /\ pc = "analyze"
    /\ \E resp \in AnalysisResponses :
        /\ ocr_analysis' = AnalyzeOcrText(resp)
        /\ calls' = Append(calls, Call("analyze", 0, <<>>, TRUE,
                                        resp.status = "ok", <<>>))
        /\ IF Get(ocr_analysis', "dishes", <<>>) = <<>>
           THEN /\ response' = Respond(200, NoDishesResult(ocr_analysis'))
                /\ pc' = "done"
           ELSE /\ pc' = "loop"
                /\ UNCHANGED response
    /\ UNCHANGED <<text_vars, request, idx, processed_dishes, dish_locals>>

\* process_ocr_text, lines 38-41 and 63-69: the head of the dish loop.
NextDish ==
    /\ pc = "loop"
    /\ idx <= Len(Dishes)
    /\ IF Get(DishData, "name", <<>>) = NonStr
       THEN /\ response' = Respond(200, ErrorResult(ErrNoStrip))
            /\ pc' = "done"
            /\ UNCHANGED idx
       ELSE IF DishName = <<>>
       THEN /\ idx' = idx + 1
            /\ UNCHANGED <<pc, response>>
       ELSE /\ pc' = "lookup"
            /\ UNCHANGED <<idx, response>>
    /\ UNCHANGED <<text_vars, request, ocr_analysis, processed_dishes, dish_locals, calls>>

\* process_ocr_text, lines 51-61, and process_ocr, lines 75-77.
Compile ==
    /\ pc = "loop"
    /\ idx > Len(Dishes)
    /\ response' = Respond(200,
            [success |-> TRUE,
             total_dishes |-> Len(processed_dishes),
             ocr_analysis |-> ocr_analysis,
             dishes |-> processed_dishes,
             processing_summary |-> GenerateProcessingSummary(processed_dishes)])
    /\ pc' = "done"
    /\ UNCHANGED <<text_vars, request, pipeline, dish_locals, calls>>

\* _process_single_dish, lines 77-82.
Lookup ==
    /\ pc = "lookup"
    /\ \E resp \in SearchResponses :
        spoonacular_result' = FindIngredientsForDish(DishName, resp)
    /\ calls' = Append(calls, Call("lookup", idx, DishName, TRUE,
                                    FoundRecipes(spoonacular_result'), <<>>))
    /\ pc' = AfterLookup(spoonacular_result')
    /\ UNCHANGED <<text_vars, request, pipeline, split_result, sanity_check_result,
                   verified_ingredients, additional_result, suggest_args, response>>

\* _process_single_dish, lines 83-85.
Split ==
    /\ pc = "split"
    /\ \E resp \in SplitResponses : split_result' = SplitDishName(DishName, resp)
    /\ calls' = Append(calls, Call("split", idx, DishName, TRUE,
                                    TruthyStr(AlternativeName(split_result')),
                                    AlternativeName(split_result')))
    /\ pc' = AfterSplit(split_result')
    /\ UNCHANGED <<text_vars, request, pipeline, spoonacular_result, sanity_check_result,
                   verified_ingredients, additional_result, suggest_args, response>>

\* _process_single_dish, lines 86-91.
Retry ==
    /\ pc = "retry"
    /\ \E resp \in SearchResponses :
        spoonacular_result' =
            FindIngredientsForDish(split_result.alternative_name, resp)
    /\ calls' = Append(calls, Call("lookup", idx, split_result.alternative_name,
                                    TRUE, FoundRecipes(spoonacular_result'), <<>>))
    /\ pc' = AfterRetry(spoonacular_result')
    /\ UNCHANGED <<text_vars, request, pipeline, split_result, sanity_check_result,
                   verified_ingredients, additional_result, suggest_args, response>>

\* _process_single_dish, lines 91-96.
SanityCheck ==
    /\ pc = "sanity"
    /\ \E resp \in SanityResponses :
        /\ sanity_check_result' =
               SanityCheckIngredients(DishName,
                   Get(spoonacular_result, "ingredients", <<>>), resp)
        /\ calls' = Append(calls, Call("sanity", idx, DishName, TRUE,
                                        resp.status = "ok", <<>>))
    /\ verified_ingredients' = Get(sanity_check_result', "verified_ingredients", <<>>)
    /\ pc' = "suggest"
    /\ UNCHANGED <<text_vars, request, pipeline, spoonacular_result, split_result,
                   additional_result, suggest_args, response>>

\* _process_single_dish, lines 98-102.
Suggest ==
    /\ pc = "suggest"
    /\ \E resp \in (IF SuggestCallsRemote(verified_ingredients, Mentioned)
                    THEN SuggestResponses ELSE {Failure}) :
        /\ additional_result' =
               SuggestAdditionalIngredients(DishName, verified_ingredients,
                                            Mentioned, resp)
        /\ calls' = Append(calls, Call("suggest", idx, DishName,
                           SuggestCallsRemote(verified_ingredients, Mentioned),
                           resp.status = "ok", <<>>))
    /\ suggest_args' = [verified |-> verified_ingredients, mentioned |-> Mentioned]
    /\ pc' = "merge"
    /\ UNCHANGED <<text_vars, request, pipeline, spoonacular_result, split_result,
                   sanity_check_result, verified_ingredients, response>>

\* _process_single_dish, lines 104-155, and process_ocr_text, lines 49, 63-69.
Merge ==
    /\ pc = "merge"
    /\ LET msg == MergeError(verified_ingredients, Mentioned,
                             Get(additional_result, "suggested_ingredients", <<>>))
       IN  IF msg = ""
           THEN /\ processed_dishes' = Append(processed_dishes,
                        DishResult(DishName, Mentioned, spoonacular_result,
                                   verified_ingredients, additional_result))
                /\ idx' = idx + 1
                /\ pc' = "loop"
                /\ UNCHANGED response
           ELSE IF ~HandlerRaises(Mentioned)
           THEN /\ processed_dishes' = Append(processed_dishes,
                        DegradedResult(DishName, Mentioned, msg))
                /\ idx' = idx + 1
                /\ pc' = "loop"
                /\ UNCHANGED response
           ELSE /\ response' = Respond(200, ErrorResult(ErrNoLen))
                /\ pc' = "done"
                /\ UNCHANGED <<idx, processed_dishes>>
    /\ spoonacular_result' = None
    /\ split_result' = None
    /\ sanity_check_result' = None
    /\ verified_ingredients' = <<>>
    /\ additional_result' = None
    /\ suggest_args' = None
    /\ UNCHANGED <<text_vars, request, ocr_analysis, calls>>

Next ==
    \/ ProcessOcr
    \/ Analyze
    \/ NextDish
    \/ Compile
    \/ Lookup
    \/ Split
    \/ Retry
    \/ SanityCheck
    \/ Suggest
    \/ Merge

Spec == Init /\ [][Next]_vars

\* ------------------------------------ ingredients_api.py: TextProcessor
IsDigit(c) == c \in 48..57

\* \w of a Python 3 str pattern: letters (the accented ones of the
\* substitution table included), digits and the underscore.
IsWordChar(c) ==
    c \in (48..57) \cup (65..90) \cup (97..122) \cup {95, 233, 237, 243}

\* The characters [^\w\s\-&,.()'/] leaves in place.
IsKept(c) == IsWordChar(c) \/ IsSpace(c) \/ c \in {45, 38, 44, 46, 40, 41, 39, 47}

\* re.sub(r'\s+', ' ', s) on a string.
RECURSIVE CollapseWhitespace(_)
CollapseWhitespace(s) ==
    IF s = <<>> THEN <<>>
    ELSE IF IsSpace(Head(s)) THEN <<32>> \o CollapseWhitespace(LStrip(s))
    ELSE <<Head(s)>> \o CollapseWhitespace(Tail(s))

\* re.sub(r'[^\w\s\-&,.()\'/]', '', s)
RECURSIVE FilterChars(_)
FilterChars(s) ==
    IF s = <<>> THEN <<>>
    ELSE IF IsKept(Head(s)) THEN <<Head(s)>> \o FilterChars(Tail(s))
    ELSE FilterChars(Tail(s))

\* str.replace(wrong, correct): leftmost non-overlapping occurrences.
RECURSIVE Replace(_, _, _)
Replace(s, wrong, correct) ==
    IF Len(s) < Len(wrong) THEN s
    ELSE IF SubSeq(s, 1, Len(wrong)) = wrong
    THEN correct \o Replace(SubSeq(s, Len(wrong) + 1, Len(s)), wrong, correct)
    ELSE <<Head(s)>> \o Replace(Tail(s), wrong, correct)

\* The dict `replacements`, in insertion order: chícken, chíck, beéf, pórk,
\* tómato, oníon, chése, chéese.
Replacements ==
    <<[wrong |-> <<99, 104, 237, 99, 107, 101, 110>>,
       correct |-> <<99, 104, 105, 99, 107, 101, 110>>],
      [wrong |-> <<99, 104, 237, 99, 107>>,
       correct |-> <<99, 104, 105, 99, 107, 101, 110>>],
      [wrong |-> <<98, 101, 233, 102>>,
       correct |-> <<98, 101, 101, 102>>],
      [wrong |-> <<112, 243, 114, 107>>,
       correct |-> <<112, 111, 114, 107>>],
      [wrong |-> <<116, 243, 109, 97, 116, 111>>,
       correct |-> <<116, 111, 109, 97, 116, 111>>],
      [wrong |-> <<111, 110, 237, 111, 110>>,
       correct |-> <<111, 110, 105, 111, 110>>],
      [wrong |-> <<99, 104, 233, 115, 101>>,
       correct |-> <<99, 104, 101, 101, 115, 101>>],
      [wrong |-> <<99, 104, 233, 101, 115, 101>>,
       correct |-> <<99, 104, 101, 101, 115, 101>>]>>

RECURSIVE ApplyReplacements(_, _)
ApplyReplacements(s, i) ==
    IF i > Len(Replacements) THEN s
    ELSE ApplyReplacements(
             Replace(s, Replacements[i].wrong, Replacements[i].correct), i + 1)

\* TextProcessor.clean_ocr_text
CleanOcrText(text) ==
    ApplyReplacements(FilterChars(CollapseWhitespace(Strip(text))), 1)

\* text.split('\n')
RECURSIVE SplitLines(_)
SplitLines(s) ==
    IF \A i \in DOMAIN s : s[i] # 10 THEN <<s>>
    ELSE LET i == CHOOSE j \in DOMAIN s :
                      s[j] = 10 /\ \A k \in 1..(j - 1) : s[k] # 10
         IN  <<SubSeq(s, 1, i - 1)>> \o SplitLines(SubSeq(s, i + 1, Len(s)))

\* str.isdigit()
IsDigitStr(s) == s # <<>> /\ \A i \in DOMAIN s : IsDigit(s[i])

\* Length of the run of digits that starts at position i of s.
RECURSIVE DigitRun(_, _)
DigitRun(s, i) ==
    IF i <= Len(s) /\ IsDigit(s[i]) THEN 1 + DigitRun(s, i + 1) ELSE 0

\* Length of the match of \$?\d+\.?\d* at the head of s, 0 when none.
PriceMatchLen(s) ==
    LET dollar == IF Len(s) >= 2 /\ s[1] = 36 /\ IsDigit(s[2]) THEN 1 ELSE 0
        whole == DigitRun(s, dollar + 1)
        dot == IF dollar + whole + 1 <= Len(s) /\ s[dollar + whole + 1] = 46
               THEN 1 ELSE 0
        frac == DigitRun(s, dollar + whole + dot + 1)
    IN  IF whole = 0 THEN 0 ELSE dollar + whole + dot + frac

\* re.sub(r'\$?\d+\.?\d*', '', line)
RECURSIVE RemovePrices(_)
RemovePrices(s) ==
    IF s = <<>> THEN <<>>
    ELSE IF PriceMatchLen(s) > 0
    THEN RemovePrices(SubSeq(s, PriceMatchLen(s) + 1, Len(s)))
    ELSE <<Head(s)>> \o RemovePrices(Tail(s))

\* The dish name the loop of extract_dish_name returns from these lines,
\* NoneStr when no line qualifies.
RECURSIVE FirstDishLine(_)
FirstDishLine(lines) ==
    IF lines = <<>> THEN NoneStr
    ELSE LET line == Strip(Head(lines))
         IN  IF /\ Len(line) > 3
                /\ ~IsDigitStr(line)
                /\ Strip(RemovePrices(line)) # <<>>
             THEN Strip(RemovePrices(line))
             ELSE FirstDishLine(Tail(lines))

ExtractDishName(text) ==
    IF FirstDishLine(SplitLines(text)) # NoneStr
    THEN FirstDishLine(SplitLines(text))
    ELSE Strip(SubSeq(text, 1, IF Len(text) < FallbackLen THEN Len(text)
                                ELSE FallbackLen))

\* OCR texts: all strings over a small alphabet (space, newline, '$', '1',
\* 'a', '.'), and menu lines.
TextAlphabet == {32, 10, 36, 49, 97, 46}

\* "Chícken Tíkka Masala $14.99\nwith basmati rice"
TikkaText == <<67, 104, 237, 99, 107, 101, 110, 32, 84, 237, 107, 107, 97, 32, 77, 97, 115, 97, 108, 97, 32, 36, 49, 52, 46, 57, 57, 10, 119, 105, 116, 104, 32, 98, 97, 115, 109, 97, 116, 105, 32, 114, 105, 99, 101>>

MenuTexts ==
    {TikkaText,
     \* "chícken soup $5"
     <<99, 104, 237, 99, 107, 101, 110, 32, 115, 111, 117, 112, 32, 36, 53>>,
     \* "12345\nbeéf stew 7.50"
     <<49, 50, 51, 52, 53, 10, 98, 101, 233, 102, 32, 115, 116, 101, 119, 32, 55, 46, 53, 48>>,
     \* "  oníon  &  tómato\t(chéese) #2 "
     <<32, 32, 111, 110, 237, 111, 110, 32, 32, 38, 32, 32, 116, 243, 109, 97, 116, 111, 9, 40, 99, 104, 233, 101, 115, 101, 41, 32, 35, 50, 32>>}

Texts == UNION {[1..n -> TextAlphabet] : n \in 0..MaxTextLen} \cup MenuTexts

\* IngredientProcessor.process_ocr_text is called with an OCR text.
TextInit ==
    /\ ip_pc = "clean"
    /\ ip_ocr_text \in Texts
    /\ ip_cleaned_text = <<>>
    /\ ip_dish_name = <<>>
    /\ request = [is_json |-> FALSE]
    /\ pc = "idle"
    /\ ocr_analysis = None
    /\ idx = 1
    /\ processed_dishes = <<>>
    /\ spoonacular_result = None
    /\ split_result = None
    /\ sanity_check_result = None
    /\ verified_ingredients = <<>>
    /\ additional_result = None
    /\ suggest_args = None
    /\ calls = <<>>
    /\ response = None

pipeline_vars ==
    <<request, pc, ocr_analysis, idx, processed_dishes, spoonacular_result,
      split_result, sanity_check_result, verified_ingredients,
      additional_result, suggest_args, calls, response>>

\* IngredientProcessor.process_ocr_text, line 240.
Clean ==
    /\ ip_pc = "clean"
    /\ ip_cleaned_text' = CleanOcrText(ip_ocr_text)
    /\ ip_pc' = "extract"
    /\ UNCHANGED <<ip_ocr_text, ip_dish_name, pipeline_vars>>

\* IngredientProcessor.process_ocr_text, line 241.
Extract ==
    /\ ip_pc = "extract"
    /\ ip_dish_name' = ExtractDishName(ip_cleaned_text)
    /\ ip_pc' = "lookup"
    /\ UNCHANGED <<ip_ocr_text, ip_cleaned_text, pipeline_vars>>

TextNext ==
    \/ Clean
    \/ Extract

SpecText == TextInit /\ [][TextNext]_vars

\* ------------------------------------------------------------ properties
\* The per-dish results of the response, when the response carries them.
Body == Get(response, "body", None)
Succeeded == pc = "done" /\ Get(Body, "success", FALSE)
Returned == IF Succeeded THEN Body.dishes ELSE <<>>

Degraded(r) == "error" \in DOMAIN r.metadata

Norm(x) == Strip(Lower(x))

SortedNoDup(l) ==
    \A i, j \in DOMAIN l :
        i < j => StrLess(l[i], l[j]) /\ Lower(l[i]) # Lower(l[j])

\* C1: in every DishResult of a response, normal or degraded, the combined
\* list is sorted ascending and has no two entries equal ignoring case.
C1_CombinedSortedNoDup ==
    \A k \in DOMAIN Returned : SortedNoDup(Returned[k].ingredients.combined_list)

\* C2: per-dish isolation.  Whenever step 5 of a dish raises, the dish yields
\* a degraded DishResult whose combined list is its mentioned_ingredients and
\* whose metadata.error is the message, and the request goes on with the
\* next dish (so that it ends with success:true).
C2_PerDishIsolation ==
    [][ (pc = "merge" /\ MergeError(verified_ingredients, Mentioned,
             Get(additional_result, "suggested_ingredients", <<>>)) # "")
        => /\ pc' = "loop"
           /\ idx' = idx + 1
           /\ Len(processed_dishes') = Len(processed_dishes) + 1
           /\ LET r == processed_dishes'[Len(processed_dishes')]
              IN  /\ Degraded(r)
                  /\ r.ingredients.combined_list = Mentioned
                  /\ r.metadata.error =
                         MergeError(verified_ingredients, Mentioned,
                             Get(additional_result, "suggested_ingredients", <<>>)) ]_vars

\* Positions in the call log of the calls of one kind made for dish k.
CallsOf(op, k) == {p \in DOMAIN calls : calls[p].op = op /\ calls[p].dish = k}

Last(S) == CHOOSE p \in S : \A q \in S : q <= p

\* The call at position p is the first one made for its dish.
FirstOfDish(p) == p = 1 \/ calls[p - 1].dish # calls[p].dish

\* The call at position p comes right after a call `op` for the same dish.
Follows(p, op) ==
    p > 1 /\ calls[p - 1].op = op /\ calls[p - 1].dish = calls[p].dish

\* C3: retry on miss.  split_dish_name is called only right after the first
\* lookup of the dish, and only when that lookup missed; a second lookup is
\* made only right after a split that returned a non-empty alternative, with
\* that alternative as its argument, and it is made whenever the split
\* returned one.  The calls of a dish are consecutive in the log, so a dish
\* has at most one split and at most two lookups.
C3_RetryOnMiss ==
    \A p \in DOMAIN calls :
          /\ calls[p].op = "split"
                 => /\ Follows(p, "lookup")
                    /\ FirstOfDish(p - 1)
                    /\ ~calls[p - 1].ok
                    /\ (TruthyStr(calls[p].ret) /\ p < Len(calls))
                           => (calls[p + 1].op = "lookup"
                                  /\ calls[p + 1].dish = calls[p].dish)
          /\ (calls[p].op = "lookup" /\ ~FirstOfDish(p))
                 => /\ Follows(p, "split")
                    /\ TruthyStr(calls[p - 1].ret)
                    /\ calls[p].arg = calls[p - 1].ret
          /\ p > 1 => calls[p - 1].dish <= calls[p].dish

C3_Witness ==
    /\ pc = "done"
    /\ \E k \in 1..Len(Dishes) :
          /\ Cardinality(CallsOf("lookup", k)) = 2
          /\ ~calls[Last(CallsOf("lookup", k))].ok
          /\ calls[Last(CallsOf("lookup", k))].arg = s_Y

\* C4: the sanity check is called for a dish exactly when the final lookup
\* of the dish found recipes, and right after that lookup; when it is
\* skipped, verified_ingredients is empty in the arguments of the suggest
\* call and in the DishResult.
C4_SanityIffFound ==
    /\ \A p \in DOMAIN calls :
          /\ calls[p].op = "sanity" => Follows(p, "lookup") /\ calls[p - 1].ok
          /\ (calls[p].op = "lookup" /\ calls[p].ok /\ p < Len(calls))
                 => (calls[p + 1].op = "sanity"
                        /\ calls[p + 1].dish = calls[p].dish)
          /\ calls[p].op = "suggest"
                 => \/ Follows(p, "sanity")
                    \/ Follows(p, "lookup") /\ ~calls[p - 1].ok
                    \/ Follows(p, "split")
    /\ (pc = "merge" /\ CallsOf("sanity", idx) = {})
           => verified_ingredients = <<>> /\ suggest_args.verified = <<>>
    /\ \A k \in DOMAIN processed_dishes :
           LET r == processed_dishes[k]
           IN  (~Degraded(r) /\ ~r.metadata.sanity_check_performed)
                   => r.ingredients.verified_spoonacular = <<>>

C4_Witness ==
    /\ pc = "loop"
    /\ \E k \in 1..Len(Dishes) :
          /\ Cardinality(CallsOf("lookup", k)) = 2
          /\ CallsOf("sanity", k) = {}
          /\ CallsOf("suggest", k) # {}
    /\ \E k \in DOMAIN processed_dishes :
          /\ ~Degraded(processed_dishes[k])
          /\ ~processed_dishes[k].metadata.sanity_check_performed

\* C5: fail-open sanity check.  When the remote call of the sanity check
\* fails, the verified list of the dish (the one passed on to the suggest
\* call) is the ingredient list of the lookup, unchanged, and
\* removed_ingredients is empty.
C5_SanityFailOpen ==
    (/\ pc \in {"suggest", "merge"}
     /\ CallsOf("sanity", idx) # {}
     /\ ~calls[Last(CallsOf("sanity", idx))].ok)
        => /\ verified_ingredients = spoonacular_result.ingredients
           /\ sanity_check_result.verified_ingredients = spoonacular_result.ingredients
           /\ sanity_check_result.removed_ingredients = <<>>
           /\ pc = "merge" => suggest_args.verified = spoonacular_result.ingredients

C5_Witness ==
    /\ pc = "merge"
    /\ CallsOf("sanity", idx) # {}
    /\ ~calls[Last(CallsOf("sanity", idx))].ok
    /\ verified_ingredients = <<s_a, s_b, s_b_sp>>

\* C6: the suggested_ingredients of a SuggestionResult, and suggested_by_ai
\* of a DishResult, never have more than 8 entries.
C6_AtMostEightSuggested ==
    /\ additional_result # None
           => Len(additional_result.suggested_ingredients) <= MaxSuggested
    /\ \A k \in DOMAIN processed_dishes :
           Len(processed_dishes[k].ingredients.suggested_by_ai) <= MaxSuggested

\* C7: the suggested_ingredients of a SuggestionResult never include an
\* entry of the verified list the suggest call was given.
C7_SuggestedNotInVerified ==
    pc = "merge"
        => Range(additional_result.suggested_ingredients)
               \cap Range(suggest_args.verified) = {}

\* C8: when the lookup of a dish failed and the dish has mentioned
\* ingredients, the combined list has every mentioned ingredient (as
\* mentioned, or in its lowercase, trimmed form).
C8_MentionedKept ==
    \A k \in DOMAIN processed_dishes :
        LET r == processed_dishes[k]
        IN  (~r.sources.spoonacular_success /\ r.ingredients.from_menu # <<>>)
                => \A i \in DOMAIN r.ingredients.from_menu :
                       \/ r.ingredients.from_menu[i]
                              \in Range(r.ingredients.combined_list)
                       \/ Norm(r.ingredients.from_menu[i])
                              \in Range(r.ingredients.combined_list)

C8_Witness ==
    \E k \in DOMAIN Returned :
        LET r == Returned[k]
        IN  /\ ~Degraded(r)
            /\ ~r.sources.spoonacular_success
            /\ r.metadata.recipes_found = 0
            /\ s_a_sp \in Range(r.ingredients.from_menu)
            /\ s_a \in Range(r.ingredients.combined_list)
            /\ r.ingredients.suggested_by_ai # <<>>

\* C9: when the analysis yields no dishes, also because its call failed, the
\* response is 200 with success:false and dishes: [], and the analysis is
\* the only call made.
C9_NoDishes ==
    (pc = "done" /\ ocr_analysis # None /\ Dishes = <<>>)
        => /\ response.status = 200
           /\ "success" \in DOMAIN Body /\ Body.success = FALSE
           /\ "dishes" \in DOMAIN Body /\ Body.dishes = <<>>
           /\ Len(calls) = 1
           /\ calls[1].op = "analyze"

C9_Witness ==
    /\ pc = "done"
    /\ ocr_analysis # None
    /\ "error" \in DOMAIN ocr_analysis
    /\ ~calls[1].ok
    /\ response.status = 200

\* C10: the confidence of every lookup result, and the
\* spoonacular_confidence of every DishResult that has one, lies in [0, 1]
\* and is min(1, recipe_count / 3) when recipes were found, else 0.
ConfidenceAsSpecified(c, found, recipe_count) ==
    /\ RatLeq(Zero, c)
    /\ RatLeq(c, One)
    /\ IF ~found THEN RatEq(c, Zero)
       ELSE IF recipe_count >= 3 THEN RatEq(c, One)
       ELSE RatEq(c, Rat(recipe_count, 3))

C10_LookupConfidence ==
    /\ spoonacular_result # None
           => ConfidenceAsSpecified(Get(spoonacular_result, "confidence", Zero),
                                    FoundRecipes(spoonacular_result),
                                    Get(spoonacular_result, "recipe_count", 0))
    /\ \A k \in DOMAIN processed_dishes :
           LET r == processed_dishes[k]
           IN  ~Degraded(r)
                   => ConfidenceAsSpecified(r.metadata.spoonacular_confidence,
                                            r.sources.spoonacular_success,
                                            r.metadata.recipes_found)

C10_Witness ==
    /\ \E k \in DOMAIN Returned :
           /\ ~Degraded(Returned[k])
           /\ Returned[k].metadata.recipes_found > 3
           /\ RatEq(Returned[k].metadata.spoonacular_confidence, One)
    /\ \E k \in DOMAIN Returned :
           /\ ~Degraded(Returned[k])
           /\ Returned[k].metadata.recipes_found = 1
           /\ RatEq(Returned[k].metadata.spoonacular_confidence, Rat(1, 3))

InUnit(c) == RatLeq(Zero, c) /\ RatLeq(c, One)

\* The confidence a SuggestionResult must carry for a remote answer.
SuggestConfidenceAsSpecified(resp, result) ==
    /\ InUnit(result.confidence)
    /\ IF resp.status # "ok" \/ "error" \in DOMAIN result
       THEN RatEq(result.confidence, Zero)
       ELSE IF "confidence" \notin DOMAIN resp.data
       THEN RatEq(result.confidence, Rat(1, 2))
       ELSE IF ~RatLeq(Zero, resp.data.confidence)
       THEN RatEq(result.confidence, Zero)
       ELSE IF ~RatLeq(resp.data.confidence, One)
       THEN RatEq(result.confidence, One)
       ELSE RatEq(result.confidence, resp.data.confidence)

\* C11: the confidence of every SuggestionResult, of either suggestion
\* wrapper, lies in [0, 1]: below 0 becomes 0, above 1 becomes 1, a missing
\* value becomes 0.5 and a failed call yields 0; so does the ai_confidence
\* of every DishResult that has one.
C11_SuggestConfidence ==
    /\ additional_result # None
           => /\ InUnit(additional_result.confidence)
              /\ "error" \in DOMAIN additional_result
                     => RatEq(additional_result.confidence, Zero)
    /\ pc = "suggest"
           => \A resp \in SuggestResponses :
                  /\ SuggestConfidenceAsSpecified(resp,
                         SuggestAdditionalIngredients(DishName,
                             verified_ingredients, Mentioned, resp))
                  /\ SuggestConfidenceAsSpecified(resp,
                         SuggestMissingIngredients(DishName,
                             verified_ingredients, resp))
    /\ \A k \in DOMAIN processed_dishes :
           ~Degraded(processed_dishes[k])
               => InUnit(processed_dishes[k].metadata.ai_confidence)

\* A dish whose answer had confidence 3/2 is in the results with 1, and the
\* current dish, whose answer had confidence -1/2, has 0.
C11_Witness ==
    /\ pc = "merge"
    /\ "error" \notin DOMAIN additional_result
    /\ additional_result.suggested_ingredients = <<NonStr>>
    /\ RatEq(additional_result.confidence, Zero)
    /\ \E k \in DOMAIN processed_dishes :
           /\ ~Degraded(processed_dishes[k])
           /\ Len(processed_dishes[k].ingredients.suggested_by_ai) = MaxSuggested + 1
           /\ RatEq(processed_dishes[k].metadata.ai_confidence, One)

Normalised(l) == \A i \in DOMAIN l : Norm(l[i]) = l[i]

\* C12: every ingredient string in every output list of every DishResult of
\* a response (from_menu, from_spoonacular, verified_spoonacular,
\* suggested_by_ai, combined_list) is lowercase and has no leading or
\* trailing whitespace.
C12_OutputNormalised ==
    \A k \in DOMAIN Returned :
        LET ing == Returned[k].ingredients
        IN  /\ Normalised(ing.from_menu)
            /\ Normalised(ing.from_spoonacular)
            /\ Normalised(ing.verified_spoonacular)
            /\ Normalised(ing.suggested_by_ai)
            /\ Normalised(ing.combined_list)

\* C13: normalisation is idempotent: cleaning the cleaned text of any OCR
\* text gives the cleaned text again.
C13_CleanIdempotent ==
    ip_pc \in {"extract", "lookup"}
        => CleanOcrText(ip_cleaned_text) = ip_cleaned_text

\* C14: cleaning "Chícken Tíkka Masala $14.99\nwith basmati rice" and
\* extracting the dish name from the cleaned text gives
\* "Chicken Tikka Masala" (TikkaName).
TikkaName == <<67, 104, 105, 99, 107, 101, 110, 32, 84, 105, 107, 107, 97, 32, 77, 97, 115, 97, 108, 97>>

C14_TikkaExample ==
    (ip_pc = "lookup" /\ ip_ocr_text = TikkaText) => ip_dish_name = TikkaName

\* Every lookup of dish k missed: the first one had no hits and the retry,
\* if there was one, missed too.
AllLookupsMissed(k) ==
    /\ CallsOf("lookup", k) # {}
    /\ \A p \in CallsOf("lookup", k) : ~calls[p].ok

\* The merge step of a dish whose lookups all missed yields a DishResult.
MissedDishMerged ==
    /\ pc = "merge"
    /\ AllLookupsMissed(idx)
    /\ Len(processed_dishes') = Len(processed_dishes) + 1

NewResult == processed_dishes'[Len(processed_dishes')]

\* The lowercase, trimmed mentioned ingredients and non-empty suggestions.
MenuPlusSuggested(r) ==
    {Norm(x) : x \in Range(r.ingredients.from_menu)}
        \cup ({Norm(x) : x \in Range(r.ingredients.suggested_by_ai)} \ {<<>>})

InvalidRequest ==
    \/ ~request.is_json
    \/ request.data = JsonNull
    \/ "ocr_text" \notin DOMAIN request.data
    \/ /\ request.data.ocr_text # NonStr
       /\ Strip(request.data.ocr_text) = <<>>

\* C16: such a request is answered with 400, never with 200 or 500, and no
\* remote call is made for it.
C16_InvalidRequest400 ==
    (pc # "idle" /\ InvalidRequest)
        => /\ calls = <<>>
           /\ pc = "done" => response.status = 400

\* C17: an unexpected error while a valid request is processed (one that no
\* client wrapper and no per-dish boundary contains) is answered with 500
\* and an error message, never with 200.
C17_UnexpectedError500 ==
    (pc = "done" /\ ~InvalidRequest /\ "error" \in DOMAIN Body)
        => response.status = 500

\* A list of strings, as the contracts of the remote calls promise.
WellShapedList(l) == l # Null /\ ~HasNonStr(l)

WellShapedCandidate(c) ==
    /\ Get(c, "name", <<>>) # NonStr
    /\ WellShapedList(Get(c, "mentioned_ingredients", <<>>))

\* C18: what a client wrapper returns is never a failure of its remote call:
\* after a failed call it is the default (no dishes, no alternative name,
\* no recipes, the input list of the sanity check, no suggestions with
\* confidence 0), and a wrongly-shaped answer does not come out of the
\* wrapper either.
C18_WrapperDefaults ==
    /\ ocr_analysis # None
           => /\ "error" \in DOMAIN ocr_analysis => Dishes = <<>>
              /\ \A i \in DOMAIN Dishes : WellShapedCandidate(Dishes[i])
    /\ spoonacular_result # None
           => (~Found => spoonacular_result.ingredients = <<>>)
    /\ split_result # None
           => ("error" \in DOMAIN split_result
                  => split_result.alternative_name = NoneStr)
    /\ sanity_check_result # None
           => /\ "error" \in DOMAIN sanity_check_result
                     => sanity_check_result.verified_ingredients
                            = spoonacular_result.ingredients
              /\ WellShapedList(Get(sanity_check_result,
                                    "verified_ingredients", <<>>))
    /\ additional_result # None
           => /\ "error" \in DOMAIN additional_result
                     => /\ additional_result.suggested_ingredients = <<>>
                        /\ RatEq(additional_result.confidence, Zero)
              /\ WellShapedList(additional_result.suggested_ingredients)

\* Candidate k has a name that is not empty after trimming.
NonEmptyName(k) ==
    /\ Get(Dishes[k], "name", <<>>) # NonStr
    /\ Strip(Get(Dishes[k], "name", <<>>)) # <<>>

\* C19: the suggest step always runs.  When the request has been answered,
\* the suggest wrapper has been called exactly once for every dish
\* candidate with a non-empty name; the call of a dish is given the verified
\* and the mentioned ingredients of that dish.
C19_SuggestAlwaysRuns ==
    /\ (pc = "done" /\ ocr_analysis # None)
           => \A k \in 1..Len(Dishes) :
                  NonEmptyName(k) => Cardinality(CallsOf("suggest", k)) = 1
    /\ pc = "merge"
           => suggest_args = [verified |-> verified_ingredients,
                              mentioned |-> Mentioned]

\* Place of the call at position p of a call log in the sequence of its
\* dish: lookup, simplify, second lookup, sanity check, suggest.
Rank(log, p) ==
    CASE log[p].op = "analyze" -> 0
      [] log[p].op = "lookup" ->
             IF p = 1 \/ log[p - 1].dish # log[p].dish THEN 1 ELSE 3
      [] log[p].op = "split" -> 2
      [] log[p].op = "sanity" -> 4
      [] log[p].op = "suggest" -> 5

\* A step makes at most one call.
MakesCall == Len(calls') = Len(calls) + 1

\* C20: every step that makes a call makes it after all the calls made
\* before.  The first call of a request is the analysis and no later call
\* is; a call is made for the dish the loop is at, which is the dish of the
\* call before or a later one, so all the calls of dish i are made before
\* any call of dish i+1; the first call of a dish is a lookup, and within a
\* dish the calls come in the order lookup, simplify, second lookup (only
\* right after the simplify), sanity check, suggest.
C20_CallOrder ==
    [][ /\ calls' = calls \/ (MakesCall /\ SubSeq(calls', 1, Len(calls)) = calls)
        /\ ocr_analysis' # None => calls' # <<>>
        /\ MakesCall
               => LET n == Len(calls')
                      new == calls'[n]
                  IN  IF n = 1 THEN new.op = "analyze"
                      ELSE /\ new.op # "analyze"
                           /\ new.dish = idx
                           /\ idx \in 1..Len(Dishes)
                           /\ calls[n - 1].dish <= new.dish
                           /\ calls[n - 1].dish # new.dish => new.op = "lookup"
                           /\ calls[n - 1].dish = new.dish
                                  => Rank(calls', n - 1) < Rank(calls', n)
                           /\ Rank(calls', n) = 3 => calls[n - 1].op = "split"
      ]_vars

\* Two dishes with calls; the first had all five.
C20_Witness ==
    /\ pc = "done"
    /\ Len(calls) >= 8
    /\ \E p \in DOMAIN calls :
           /\ calls[p].dish = 1 /\ calls[p].op = "lookup"
           /\ calls[p + 1].dish = 1 /\ calls[p + 1].op = "split"
           /\ calls[p + 2].dish = 1 /\ calls[p + 2].op = "lookup"
           /\ calls[p + 3].dish = 1 /\ calls[p + 3].op = "sanity"
           /\ calls[p + 4].dish = 1 /\ calls[p + 4].op = "suggest"
           /\ calls[p + 5].dish = 2 /\ calls[p + 5].op = "lookup"

\* The members of the three source lists of a DishResult.
SourceMembers(r) ==
    Range(r.ingredients.verified_spoonacular)
        \cup Range(r.ingredients.from_menu)
        \cup Range(r.ingredients.suggested_by_ai)

\* C21 as stated: the combined list of every non-degraded DishResult is
\* sorted, without duplicates, and holds exactly the lowercased members of
\* the verified, mentioned and suggested lists.
C21_MergeRule ==
    \A k \in DOMAIN Returned :
        LET r == Returned[k]
        IN  ~Degraded(r)
                => /\ SortedNoDup(r.ingredients.combined_list)
                   /\ Range(r.ingredients.combined_list)
                          = {Lower(x) : x \in SourceMembers(r)}

\* C21 amended: it holds exactly the lowercased and trimmed members of the
\* verified and mentioned lists and the non-empty lowercased and trimmed
\* members of the suggested list.
C21_MergeRuleTrimmed ==
    \A k \in DOMAIN Returned :
        LET r == Returned[k]
        IN  ~Degraded(r)
                => /\ SortedNoDup(r.ingredients.combined_list)
                   /\ Range(r.ingredients.combined_list)
                          = {Norm(x) : x \in Range(r.ingredients.verified_spoonacular)
                                              \cup Range(r.ingredients.from_menu)}
                            \cup ({Norm(x) : x \in Range(r.ingredients.suggested_by_ai)}
                                      \ {<<>>})

\* A result with members in all three lists, some of them with whitespace
\* or capitals, merged into ['a', 'b', 'c'].
C21_Witness ==
    \E k \in DOMAIN Returned :
        LET r == Returned[k]
        IN  /\ ~Degraded(r)
            /\ r.ingredients.verified_spoonacular = <<s_a, s_b, s_b_sp>>
            /\ r.ingredients.from_menu = <<s_b, s_A, s_a_sp>>
            /\ r.ingredients.suggested_by_ai = <<s_c, s_a, s_sp_C>>
            /\ r.ingredients.combined_list = <<s_a, s_b, s_c>>

\* The candidates of the analysis whose name is not empty after trimming,
\* in the order of the analysis.
NamedCandidates ==
    SelectSeq(Dishes, LAMBDA d : Strip(Get(d, "name", <<>>)) # <<>>)

RECURSIVE TotalOfFirst(_, _)
TotalOfFirst(dishes, n) ==
    IF n = 0 THEN 0
    ELSE dishes[n].metadata.total_ingredients + TotalOfFirst(dishes, n - 1)

SummaryAsSpecified(body) ==
    LET summary == body.processing_summary
        n == Len(NamedCandidates)
    IN  /\ body.total_dishes = n
        /\ Len(body.dishes) = n
        /\ summary.total_dishes_processed = n
        /\ \A i \in 1..n :
               body.dishes[i].dish_name = Strip(NamedCandidates[i].name)
        /\ RatLeq(Zero, summary.spoonacular_success_rate)
        /\ RatLeq(summary.spoonacular_success_rate, One)
        /\ RatLeq(Zero, summary.openai_success_rate)
        /\ RatLeq(summary.openai_success_rate, One)
        /\ summary.total_ingredients_found = TotalOfFirst(body.dishes, n)

DishMerged ==
    /\ pc = "merge"
    /\ Len(processed_dishes') = Len(processed_dishes) + 1
    /\ ~Degraded(NewResult)

\* The outcome of the last lookup made for dish k: the retry's when there
\* was one.
FinalLookupFound(k) == calls[Last(CallsOf("lookup", k))].ok

\* The fields of r that derive from the lookup agree with its outcome.
LookupFieldsConsistent(r, found) ==
    /\ r.metadata.sanity_check_performed = found
    /\ r.sources.spoonacular_success = found
    /\ r.metadata.recipes_found > 0 => found
    /\ r.ingredients.verified_spoonacular # <<>> => found
    /\ r.metadata.total_ingredients = Len(r.ingredients.combined_list)

\* C23: in every non-degraded DishResult sanity_check_performed and
\* spoonacular_success equal the outcome of the final lookup, recipes_found
\* is positive and verified_spoonacular non-empty only if it found recipes,
\* total_ingredients is the length of combined_list, and dish_name is the
\* name of the candidate, trimmed as the dish loop trims it, whatever name
\* the final lookup was made under.
C23_LookupFields ==
    [][ DishMerged
            => /\ LookupFieldsConsistent(NewResult, FinalLookupFound(idx))
               /\ NewResult.dish_name = Strip(Dishes[idx].name)
      ]_vars

\* A dish whose first lookup missed and whose retry found recipes under
\* the alternative name has just been merged: its result keeps the
\* candidate's name and reports the retry's recipes.
C23_Witness ==
    /\ pc = "loop"
    /\ idx > 1
    /\ Cardinality(CallsOf("lookup", idx - 1)) = 2
    /\ FinalLookupFound(idx - 1)
    /\ processed_dishes # <<>>
    /\ LET r == processed_dishes[Len(processed_dishes)]
       IN  /\ ~Degraded(r)
           /\ r.dish_name # calls[Last(CallsOf("lookup", idx - 1))].arg
           /\ r.dish_name = Strip(Dishes[idx - 1].name)
           /\ r.metadata.recipes_found > 0
           /\ r.metadata.sanity_check_performed
           /\ r.ingredients.verified_spoonacular # <<>>

\* process_ocr_text has been called and the request is answered.
PipelineReturned == pc = "done" /\ calls # <<>>

\* The analysis call failed.
AnalysisFailed == ~calls[1].ok

\* C24: process_ocr_text never raises to its caller.  Once it has been
\* called, the request is answered from its return value (status 200, not
\* the handler's except branch), whatever the remote calls answered; the
\* value has a boolean success; when success is false it has no per-dish
\* results, and it carries the error message: the analysis wrapper's when
\* the analysis call failed, the exception's when the analysis gave
\* candidates and the dish loop was abandoned.
C24_NeverRaises ==
    PipelineReturned
        => /\ response.status = 200
           /\ Body.success \in BOOLEAN
           /\ ~Body.success
                 => /\ Get(Body, "dishes", <<>>) = <<>>
                    /\ AnalysisFailed
                          => /\ "error" \in DOMAIN Body.ocr_analysis
                             /\ Body.ocr_analysis.error # ""
                    /\ ~AnalysisFailed /\ Dishes # <<>>
                          => /\ "error" \in DOMAIN Body
                             /\ Body.error # ""
                             /\ "dishes" \notin DOMAIN Body

\* A request abandoned after the remote calls of a dish whose
\* mentioned_ingredients is null: the exception raised in the except
\* branch of _process_single_dish is answered as success:false.
C24_Witness ==
    /\ PipelineReturned
    /\ Len(calls) > 2
    /\ ~Body.success
    /\ Get(Body, "error", "") = ErrNoLen
    /\ \E k \in DOMAIN Dishes : Get(Dishes[k], "mentioned_ingredients", <<>>) = Null

\* The remote calls made for dish k with operation op.
RemoteCallsOf(op, k) == {p \in CallsOf(op, k) : calls[p].remote}

\* The number of remote calls made for dish k.
RemoteCalls(k) ==
    Cardinality({p \in DOMAIN calls : calls[p].dish = k /\ calls[p].remote})

\* C25: bounded remote calls.  When a request whose analysis gave dish
\* candidates has been answered, exactly one analysis call has been made
\* and, for every candidate with a non-empty name, at least 2 remote calls
\* (a lookup and a suggest among them) and at most 5: at most two lookups,
\* one simplify, one sanity check and one suggest.
C25_CallBounds ==
    (pc = "done" /\ ocr_analysis # None)
        => /\ Cardinality(CallsOf("analyze", 0)) = 1
           /\ \A k \in 1..Len(Dishes) :
                  NonEmptyName(k)
                      => /\ RemoteCalls(k) >= 2
                         /\ RemoteCalls(k) <= 5
                         /\ Cardinality(RemoteCallsOf("lookup", k)) \in {1, 2}
                         /\ Cardinality(RemoteCallsOf("split", k)) <= 1
                         /\ Cardinality(RemoteCallsOf("sanity", k)) <= 1
                         /\ Cardinality(RemoteCallsOf("suggest", k)) = 1

====
